---- MODULE Spec2Model ----
(***************************************************************************)
(* Model of the service worker push listener in sw.js.                     *)
(*                                                                         *)
(* The listener runs to completion on the worker's single thread, so one   *)
(* invocation is one action (Push).  The promise returned by               *)
(* showNotification settles later, in a step of its own (Fulfil / Reject). *)
(***************************************************************************)
EXTENDS Integers, Sequences, FiniteSets, TLC

VARIABLES invocations, promise, extended

vars == <<invocations, promise, extended>>

(* Number of push events delivered in one behaviour. *)
MaxEvents == 2

---------------------------------------------------------------------------
(* JavaScript values, tagged by type. *)
Str(s) == [t |-> "string", v |-> s]
Num(s) == [t |-> "number", v |-> s]
Undefined == [t |-> "undefined", v |-> ""]
Null == [t |-> "null", v |-> ""]
Obj(f) == [t |-> "object", fields |-> f]

DefaultTitle == Str("Market Alert")
DefaultBody == Str("New Signal Detected!")
IconUrl == Str("https://cdn-icons-png.flaticon.com/512/2464/2464402.png")

(* The object literal on the right of the conditional in line 3. *)
DefaultData == Obj([title |-> DefaultTitle, body |-> DefaultBody])

(* Payloads a push service can deliver. *)
FieldNames == {"title", "body", "icon", "badge"}

FieldValues(f) ==
    CASE f = "title" -> {Str(""), Str("BTC Alert"), Null}
      [] f = "body"  -> {Str("Price crossed $50k")}
      [] OTHER       -> {Str("https://example.test/other.png")}

AllFieldValues == UNION {FieldValues(f) : f \in FieldNames}

JsonObjects ==
    UNION { {o \in [S -> AllFieldValues] : \A f \in S : o[f] \in FieldValues(f)}
            : S \in SUBSET FieldNames }

(* event.data: null when the message has no payload, otherwise a          *)
(* PushMessageData whose text either is JSON (json holds the parsed       *)
(* value) or is not.                                                      *)
NoData == [present |-> FALSE]
Malformed == [present |-> TRUE, wellFormed |-> FALSE]
Json(v) == [present |-> TRUE, wellFormed |-> TRUE, json |-> v]

PushData ==
    {NoData, Malformed, Json(Null), Json(Num("42"))}
    \cup {Json(Obj(o)) : o \in JsonObjects}

PushEvents == {[data |-> d] : d \in PushData}

---------------------------------------------------------------------------
(* Property read  v.name : a TypeError on null and undefined, the own     *)
(* property of an object, undefined on an object without it and on a      *)
(* primitive parsed from JSON.                                            *)
CanRead(v) == v.t \notin {"null", "undefined"}

Get(v, name) ==
    IF v.t = "object" /\ name \in DOMAIN v.fields THEN v.fields[name]
    ELSE Undefined

(* Variants of the code, each the change a plausible slip would make.     *)
OrDefault(v, d) == IF v \in {Undefined, Null, Str("")} THEN d ELSE v

(* data.title || 'Market Alert', data.body || 'New Signal Detected!' *)
DeriveData_OrDefault(event) ==
    IF event.data.present
    THEN IF event.data.wellFormed
         THEN [jsonCalls |-> 1, error |-> "none",
               data |-> IF event.data.json.t = "object"
                        THEN Obj([f \in DOMAIN event.data.json.fields \cup {"title", "body"} |->
                                 CASE f = "title" -> OrDefault(Get(event.data.json, f), DefaultTitle)
                                   [] f = "body" -> OrDefault(Get(event.data.json, f), DefaultBody)
                                   [] OTHER -> Get(event.data.json, f)])
                        ELSE event.data.json]
         ELSE [jsonCalls |-> 1, error |-> "SyntaxError", data |-> Undefined]
    ELSE [jsonCalls |-> 0, error |-> "none", data |-> DefaultData]

(* the branches of the conditional exchanged *)
DeriveData_Inverted(event) ==
    IF ~event.data.present
    THEN [jsonCalls |-> 0, error |-> "TypeError", data |-> Undefined]
    ELSE [jsonCalls |-> 0, error |-> "none", data |-> DefaultData]

(* the parse wrapped in try/catch with the default as the fallback *)
DeriveData_CatchParse(event) ==
    IF event.data.present
    THEN IF event.data.wellFormed
         THEN [jsonCalls |-> 1, error |-> "none", data |-> event.data.json]
         ELSE [jsonCalls |-> 1, error |-> "none", data |-> DefaultData]
    ELSE [jsonCalls |-> 0, error |-> "none", data |-> DefaultData]

(* Line 3:  event.data ? event.data.json() : { title: ..., body: ... }    *)
DeriveData(event) ==
    IF event.data.present
    THEN IF event.data.wellFormed
         THEN [jsonCalls |-> 1, error |-> "none", data |-> event.data.json]
         ELSE [jsonCalls |-> 1, error |-> "SyntaxError", data |-> Undefined]
    ELSE [jsonCalls |-> 0, error |-> "none", data |-> DefaultData]

(* icon: data.icon || '...', badge: data.badge || '...' *)
Options_FromPayload(data) ==
    [body |-> Get(data, "body"),
     icon |-> OrDefault(Get(data, "icon"), IconUrl),
     badge |-> OrDefault(Get(data, "badge"), IconUrl)]

(* body: data.body ?? 'New Signal Detected!' *)
Options_NullishBody(data) ==
    [body |-> IF Get(data, "body") \in {Undefined, Null} THEN DefaultBody
              ELSE Get(data, "body"),
     icon |-> IconUrl, badge |-> IconUrl]

(* Lines 4-8: the options literal. *)
Options(data) ==
    [body |-> Get(data, "body"), icon |-> IconUrl, badge |-> IconUrl]

(* showNotification called without event.waitUntil around it *)
Display_NoWaitUntil(data) ==
    [requests |-> <<[title |-> Get(data, "title"), options |-> Options(data)]>>,
     waitUntil |-> 0]

(* showNotification called a second time for the same event *)
Display_Twice(data) ==
    [requests |-> <<[title |-> Get(data, "title"), options |-> Options(data)],
                    [title |-> Get(data, "title"), options |-> Options(data)]>>,
     waitUntil |-> 1]

(* Line 9: the calls made on the host, in order of evaluation.  The       *)
(* argument of waitUntil is the promise showNotification returned.        *)
Display(data) ==
    [requests |-> <<[title |-> Get(data, "title"), options |-> Options(data)]>>,
     waitUntil |-> 1]

(* the whole body passed to event.waitUntil as an async function *)
Handler_WaitFirst(event) ==
    LET d == DeriveData(event) IN
    IF d.error # "none"
    THEN [event |-> event, jsonCalls |-> d.jsonCalls, error |-> d.error,
          derived |-> FALSE, data |-> Undefined, requests |-> <<>>, waitUntil |-> 1]
    ELSE IF ~CanRead(d.data)
    THEN [event |-> event, jsonCalls |-> d.jsonCalls, error |-> "TypeError",
          derived |-> TRUE, data |-> d.data, requests |-> <<>>, waitUntil |-> 1]
    ELSE [event |-> event, jsonCalls |-> d.jsonCalls, error |-> "none",
          derived |-> TRUE, data |-> d.data,
          requests |-> Display(d.data).requests,
          waitUntil |-> 1]

(* a redelivered message recognised and not displayed again *)
Handler_Dedup(event) ==
    LET d == DeriveData(event) IN
    IF d.error # "none"
    THEN [event |-> event, jsonCalls |-> d.jsonCalls, error |-> d.error,
          derived |-> FALSE, data |-> Undefined, requests |-> <<>>, waitUntil |-> 0]
    ELSE IF ~CanRead(d.data)
    THEN [event |-> event, jsonCalls |-> d.jsonCalls, error |-> "TypeError",
          derived |-> TRUE, data |-> d.data, requests |-> <<>>, waitUntil |-> 0]
    ELSE IF \E i \in DOMAIN invocations : invocations[i].event = event
    THEN [event |-> event, jsonCalls |-> d.jsonCalls, error |-> "none",
          derived |-> TRUE, data |-> d.data, requests |-> <<>>, waitUntil |-> 0]
    ELSE [event |-> event, jsonCalls |-> d.jsonCalls, error |-> "none",
          derived |-> TRUE, data |-> d.data,
          requests |-> Display(d.data).requests,
          waitUntil |-> Display(d.data).waitUntil]

(* Lines 2-10: one run of the listener.  A throw ends the run at the      *)
(* statement that threw; nothing in the listener catches it.              *)
Handler(event) ==
    LET d == DeriveData(event) IN
    IF d.error # "none"
    THEN [event |-> event, jsonCalls |-> d.jsonCalls, error |-> d.error,
          derived |-> FALSE, data |-> Undefined, requests |-> <<>>, waitUntil |-> 0]
    ELSE IF ~CanRead(d.data)
    THEN [event |-> event, jsonCalls |-> d.jsonCalls, error |-> "TypeError",
          derived |-> TRUE, data |-> d.data, requests |-> <<>>, waitUntil |-> 0]
    ELSE [event |-> event, jsonCalls |-> d.jsonCalls, error |-> "none",
          derived |-> TRUE, data |-> d.data,
          requests |-> Display(d.data).requests,
          waitUntil |-> Display(d.data).waitUntil]

---------------------------------------------------------------------------
Init ==
    /\ invocations = <<>>
    /\ promise = <<>>
    /\ extended = <<>>

(* The host delivers a push event and the listener runs. *)
Push(event) ==
    /\ Len(invocations) < MaxEvents
    /\ LET r == Handler(event) IN
       /\ invocations' = Append(invocations, r)
       /\ promise' = Append(promise,
                        IF Len(r.requests) > 0 THEN "pending" ELSE "none")
       /\ extended' = Append(extended,
                        r.waitUntil > 0 /\ Len(r.requests) > 0)

(* The host settles the promise of a display request; the extension the   *)
(* listener asked for with that promise ends with it.                     *)
Fulfil(i) ==
    /\ promise[i] = "pending"
    /\ promise' = [promise EXCEPT ![i] = "fulfilled"]
    /\ extended' = [extended EXCEPT ![i] = FALSE]
    /\ UNCHANGED invocations

Reject(i) ==
    /\ promise[i] = "pending"
    /\ promise' = [promise EXCEPT ![i] = "rejected"]
    /\ extended' = [extended EXCEPT ![i] = FALSE]
    /\ UNCHANGED invocations

Next ==
    \/ \E event \in PushEvents : Push(event)
    \/ \E i \in DOMAIN promise : Fulfil(i)
    \/ \E i \in DOMAIN promise : Reject(i)

Spec == Init /\ [][Next]_vars

TypeOK ==
    /\ Len(invocations) <= MaxEvents
    /\ Len(promise) = Len(invocations)
    /\ Len(extended) = Len(invocations)
    /\ \A i \in DOMAIN promise :
          promise[i] \in {"none", "pending", "fulfilled", "rejected"}

---------------------------------------------------------------------------
(* Classification of a delivered event by its payload. *)
Absent(ev) == ~ev.data.present
Unparseable(ev) == ev.data.present /\ ~ev.data.wellFormed
Parsed(ev) == ev.data.present /\ ev.data.wellFormed
ParsedObject(ev) == Parsed(ev) /\ ev.data.json.t = "object"
HasField(ev, f) == ParsedObject(ev) /\ f \in DOMAIN ev.data.json.fields
(* The listener reaches line 9: nothing before it throws. *)
ReachesDisplay(ev) == Absent(ev) \/ (Parsed(ev) /\ CanRead(ev.data.json))
Settled(p) == p \in {"fulfilled", "rejected"}
Defined(v) == v.t \notin {"null", "undefined"}

(* C1: a payload that parses to an object with title T and body B yields  *)
(* one request with title exactly T and options.body exactly B.           *)
C1_PayloadTitleBody ==
    \A i \in DOMAIN invocations :
        LET r == invocations[i] IN
        (HasField(r.event, "title") /\ HasField(r.event, "body")) =>
            /\ Len(r.requests) = 1
            /\ r.requests[1].title = r.event.data.json.fields["title"]
            /\ r.requests[1].options.body = r.event.data.json.fields["body"]

C1_Witness ==
    \E i \in DOMAIN invocations :
        /\ HasField(invocations[i].event, "title")
        /\ HasField(invocations[i].event, "body")
        /\ invocations[i].event.data.json.fields["title"] = Str("")
        /\ Len(invocations[i].requests) = 1
        /\ invocations[i].requests[1].options.body = Str("Price crossed $50k")

(* C2: an event without payload yields the request ("Market Alert",       *)
(* body "New Signal Detected!") and json() is never called.               *)
C2_NoPayloadDefaults ==
    \A i \in DOMAIN invocations :
        LET r == invocations[i] IN
        Absent(r.event) =>
            /\ r.jsonCalls = 0
            /\ Len(r.requests) = 1
            /\ r.requests[1].title = Str("Market Alert")
            /\ r.requests[1].options.body = Str("New Signal Detected!")

C2_Witness ==
    \E i \in DOMAIN invocations :
        Absent(invocations[i].event) /\ Len(invocations[i].requests) = 1

(* C3 as stated: waitUntil is called exactly once in every invocation,    *)
(* whatever the payload.                                                  *)
C3_WaitUntilOnceAlways ==
    \A i \in DOMAIN invocations : invocations[i].waitUntil = 1

(* C3 amended: waitUntil is called exactly once in every invocation that  *)
(* reaches line 9 (payload absent, or parsed to a value other than null)  *)
(* and not at all in an invocation ended by a throw before it.            *)
C3_WaitUntilOnceUnlessThrown ==
    \A i \in DOMAIN invocations :
        LET r == invocations[i] IN
        /\ ReachesDisplay(r.event) => r.waitUntil = 1
        /\ ~ReachesDisplay(r.event) => (r.waitUntil = 0 /\ r.error # "none")

C3_Witness ==
    \E i, j \in DOMAIN invocations :
        /\ Unparseable(invocations[i].event) /\ invocations[i].waitUntil = 0
        /\ Parsed(invocations[j].event) /\ invocations[j].waitUntil = 1

(* C4 as stated: every received event yields exactly one showNotification *)
(* request.                                                               *)
C4_OneRequestAlways ==
    \A i \in DOMAIN invocations : Len(invocations[i].requests) = 1

(* C4 amended: every received event yields at most one request: exactly   *)
(* one when the listener reaches line 9, none when it ends by a throw.    *)
C4_OneRequestUnlessThrown ==
    \A i \in DOMAIN invocations :
        LET r == invocations[i] IN
        /\ Len(r.requests) <= 1
        /\ ReachesDisplay(r.event) => Len(r.requests) = 1
        /\ ~ReachesDisplay(r.event) => (Len(r.requests) = 0 /\ r.error # "none")

C4_Witness ==
    \E i, j \in DOMAIN invocations :
        /\ i # j
        /\ invocations[i].event = invocations[j].event
        /\ Len(invocations[i].requests) = 1
        /\ Len(invocations[j].requests) = 1

(* C5: whenever the listener has derived data, data.title and data.body   *)
(* are both defined and non-null.                                         *)
C5_DataFieldsDefined ==
    \A i \in DOMAIN invocations :
        LET r == invocations[i] IN
        (r.derived /\ CanRead(r.data)) =>
            /\ Defined(Get(r.data, "title"))
            /\ Defined(Get(r.data, "body"))

(* C6: every request carries the fixed URL as options.icon and as         *)
(* options.badge, whatever the payload holds.                             *)
C6_FixedIconBadge ==
    \A i \in DOMAIN invocations :
        \A k \in DOMAIN invocations[i].requests :
            /\ invocations[i].requests[k].options.icon =
                   Str("https://cdn-icons-png.flaticon.com/512/2464/2464402.png")
            /\ invocations[i].requests[k].options.badge =
                   Str("https://cdn-icons-png.flaticon.com/512/2464/2464402.png")

C6_Witness ==
    \E i \in DOMAIN invocations :
        /\ HasField(invocations[i].event, "icon")
        /\ HasField(invocations[i].event, "badge")
        /\ Len(invocations[i].requests) = 1

(* C7: a payload that does not parse ends the listener with the           *)
(* SyntaxError uncaught, with no request issued and no data derived, the  *)
(* default text included.                                                 *)
C7_MalformedPropagates ==
    \A i \in DOMAIN invocations :
        LET r == invocations[i] IN
        Unparseable(r.event) =>
            /\ r.error = "SyntaxError"
            /\ r.requests = <<>>
            /\ ~r.derived
            /\ promise[i] = "none"

C7_Witness ==
    \E i \in DOMAIN invocations :
        Unparseable(invocations[i].event) /\ invocations[i].error = "SyntaxError"

(* C8: while an event's display request is pending its lifetime extension *)
(* is in force, and an extension ends only in a step that leaves the      *)
(* request fulfilled or rejected.                                         *)
C8_ExtendedUntilSettled ==
    [][\A i \in DOMAIN promise' :
          /\ promise'[i] = "pending" => extended'[i]
          /\ (i \in DOMAIN extended /\ extended[i] /\ ~extended'[i]) =>
                 (promise[i] = "pending" /\ Settled(promise'[i]))]_vars

C8_Witness ==
    \E i, j \in DOMAIN promise :
        /\ promise[i] = "pending" /\ extended[i]
        /\ promise[j] = "rejected" /\ ~extended[j]

C10_NoPerFieldDefault ==
    \A i \in DOMAIN invocations :
        LET r == invocations[i] IN
        /\ (ParsedObject(r.event) /\ ~HasField(r.event, "title")) =>
              (Len(r.requests) = 1 /\ r.requests[1].title = Undefined)
        /\ (ParsedObject(r.event) /\ ~HasField(r.event, "body")) =>
              (Len(r.requests) = 1 /\ r.requests[1].options.body = Undefined)

C10_Witness ==
    \E i, j \in DOMAIN invocations :
        /\ ParsedObject(invocations[i].event)
        /\ ~HasField(invocations[i].event, "title")
        /\ HasField(invocations[i].event, "body")
        /\ Len(invocations[i].requests) = 1
        /\ ParsedObject(invocations[j].event)
        /\ ~HasField(invocations[j].event, "body")
        /\ Len(invocations[j].requests) = 1
====
